---- MODULE Spec2Model ----
(***************************************************************************)
(* PromptLab: the prompt/collection CRUD API of backend/app.               *)
(*                                                                         *)
(* The state is the global Storage instance (two insertion-ordered dicts), *)
(* the wall clock read by get_current_time, the supply of fresh uuid4      *)
(* values, and a record of the last request: its route, its status code    *)
(* and the entries it changed.  Each route of api.py is one action that    *)
(* runs the whole handler, request validation included.                    *)
(*                                                                         *)
(* Spec serves one request at a time and records it.  SpecStore serves the *)
(* same requests and records nothing.  SpecConc serves two requests at     *)
(* once, a handler advancing by one Storage call at a time.                *)
(*                                                                         *)
(* Representation.  Optional[T] is a sequence of length at most one:       *)
(* None is << >> and a present value v is <<v>>.  Titles, contents,        *)
(* descriptions, names and search queries are sequences of one-character   *)
(* strings, so that length, lower() and substring are computed.  Ids are   *)
(* TLA+ strings; "" is the empty id.                                       *)
(***************************************************************************)
EXTENDS Integers, Sequences, FiniteSets, TLC

VARIABLES
    prompts,      \* Storage._prompts: the dict's values in insertion order
    collections,  \* Storage._collections: the dict's values in insertion order
    now,          \* the time get_current_time() returns when called
    nextId,       \* how many uuid4 values generate_id() has handed out, per entity
    last,         \* the last request: route, status code, keys of the entries it changed
    inflight      \* the requests being served in steps; none while requests run one by one

vars == <<prompts, collections, now, nextId, last, inflight>>

----------------------------------------------------------------------------
(* Bounds of the model *)

\* the number of prompts one run creates
MaxPrompts == 2
\* the number of collections one run creates
MaxCollections == 2
\* the last instant of the clock
MaxTime == 1

----------------------------------------------------------------------------
(* Optional values and truthiness *)

None == << >>
Some(v) == <<v>>

\* Python's truth value of an Optional[str] holding an id: None and "" are falsy
TruthyId(o) == o # None /\ o[1] # ""

\* Python's truth value of an Optional[str] holding a text: None and "" are falsy
TruthyText(o) == o # None /\ o[1] # << >>

----------------------------------------------------------------------------
(* models.py *)

\* the uuid4 values, in the order generate_id hands them out to the Prompt
\* and to the Collection default factory: each value is handed out once
UuidTable ==
    [prompt     |-> <<"p1", "p2", "p3", "p4">>,
     collection |-> <<"c1", "c2", "c3", "c4">>]

generate_id(kind, n) == UuidTable[kind][n + 1]

\* PromptBase.title: max_length
TitleMaxLength == 200
\* PromptBase.description, CollectionBase.description: max_length
DescriptionMaxLength == 500
\* CollectionBase.name: max_length
NameMaxLength == 100

\* PromptBase (PromptCreate and PromptUpdate add nothing): title and content
\* are required strings, description and collection_id are optional
PromptBase(body) ==
    /\ body.title # None
    /\ Len(body.title[1]) >= 1
    /\ Len(body.title[1]) <= TitleMaxLength
    /\ body.content # None
    /\ Len(body.content[1]) >= 1
    /\ (body.description # None => Len(body.description[1]) <= DescriptionMaxLength)

\* CollectionBase (CollectionCreate adds nothing)
CollectionBase(body) ==
    /\ body.name # None
    /\ Len(body.name[1]) >= 1
    /\ Len(body.name[1]) <= NameMaxLength
    /\ (body.description # None => Len(body.description[1]) <= DescriptionMaxLength)

\* Prompt(...): the stored entity
Prompt(id, title, content, description, collection_id, created_at, updated_at) ==
    [id |-> id, title |-> title, content |-> content,
     description |-> description, collection_id |-> collection_id,
     created_at |-> created_at, updated_at |-> updated_at]

\* Collection(...): the stored entity
Collection(id, name, description, created_at) ==
    [id |-> id, name |-> name, description |-> description,
     created_at |-> created_at]

----------------------------------------------------------------------------
(* Python dict, as the sequence of its values in insertion order *)

Keys(d) == {d[i].id : i \in DOMAIN d}

IndexOf(d, k) == CHOOSE i \in DOMAIN d : d[i].id = k

\* d.get(k)
DictGet(d, k) == IF k \in Keys(d) THEN Some(d[IndexOf(d, k)]) ELSE None

\* d[k] = v: an existing key keeps its position, a new key goes last
DictSet(d, k, v) ==
    IF k \in Keys(d) THEN [d EXCEPT ![IndexOf(d, k)] = v] ELSE Append(d, v)

\* del d[k]
DictDel(d, k) ==
    LET i == IndexOf(d, k)
    IN  SubSeq(d, 1, i - 1) \o SubSeq(d, i + 1, Len(d))

----------------------------------------------------------------------------
(* storage.py: each operation on the dict it touches *)

\* create_prompt that returns the prompt and stores nothing
Storage_create_prompt_unstored(P, prompt) == P

Storage_create_prompt(P, prompt) == DictSet(P, prompt.id, prompt)

Storage_get_prompt(P, prompt_id) == DictGet(P, prompt_id)

Storage_get_all_prompts(P) == P

\* update_prompt that stores without asking whether the key is there
Storage_update_prompt_upsert(P, prompt_id, prompt) == DictSet(P, prompt_id, prompt)

\* the dict after update_prompt; the call returns None exactly when the key is absent
Storage_update_prompt(P, prompt_id, prompt) ==
    IF prompt_id \notin Keys(P) THEN P ELSE DictSet(P, prompt_id, prompt)

\* <<the dict after delete_prompt, the returned bool>>
Storage_delete_prompt(P, prompt_id) ==
    IF prompt_id \in Keys(P) THEN <<DictDel(P, prompt_id), TRUE>> ELSE <<P, FALSE>>

Storage_create_collection(C, collection) == DictSet(C, collection.id, collection)

Storage_get_collection(C, collection_id) == DictGet(C, collection_id)

Storage_get_all_collections(C) == C

\* <<the dict after delete_collection, the returned bool>>
Storage_delete_collection(C, collection_id) ==
    IF collection_id \in Keys(C) THEN <<DictDel(C, collection_id), TRUE>> ELSE <<C, FALSE>>

Storage_get_prompts_by_collection(P, collection_id) ==
    SelectSeq(P, LAMBDA p : p.collection_id = Some(collection_id))

\* the loop left at its first match
update_prompts_collection_to_none_first(P, collection_id) ==
    LET hits == {i \in DOMAIN P : P[i].collection_id = Some(collection_id)}
    IN  [i \in DOMAIN P |->
            IF i \in hits /\ \A j \in hits : i <= j
            THEN [P[i] EXCEPT !.collection_id = None]
            ELSE P[i]]

\* the loop without its test: every linked prompt loses its link
update_prompts_collection_to_none_all(P, collection_id) ==
    [i \in DOMAIN P |-> [P[i] EXCEPT !.collection_id = None]]

Storage_update_prompts_collection_to_none(P, collection_id) ==
    [i \in DOMAIN P |->
        IF P[i].collection_id = Some(collection_id)
        THEN [P[i] EXCEPT !.collection_id = None]
        ELSE P[i]]

----------------------------------------------------------------------------
(* utils.py *)

\* sorted(xs, key = created_at, reverse = r) is stable for either r: x goes
\* behind every element that does not sort strictly after it
SortedInsert(acc, x, reverse) ==
    LET k == Cardinality({i \in DOMAIN acc :
                 IF reverse THEN acc[i].created_at >= x.created_at
                            ELSE acc[i].created_at <= x.created_at})
    IN  SubSeq(acc, 1, k) \o <<x>> \o SubSeq(acc, k + 1, Len(acc))

RECURSIVE SortedFrom(_, _, _, _)
SortedFrom(xs, i, acc, reverse) ==
    IF i > Len(xs) THEN acc
    ELSE SortedFrom(xs, i + 1, SortedInsert(acc, xs[i], reverse), reverse)

\* a sort that never looks at the descending argument (oldest first)
sort_prompts_by_date_ascending(ps, descending) == SortedFrom(ps, 1, << >>, FALSE)

sort_prompts_by_date(ps, descending) == SortedFrom(ps, 1, << >>, descending)

filter_prompts_by_collection(ps, collection_id) ==
    SelectSeq(ps, LAMBDA p : p.collection_id = Some(collection_id))

\* str.lower() on the characters the model uses
LowerChar(c) == IF c = "A" THEN "a" ELSE IF c = "B" THEN "b" ELSE c

Lower(s) == [i \in DOMAIN s |-> LowerChar(s[i])]

\* the Python test  needle in hay
Contains(hay, needle) ==
    \E i \in 0..(Len(hay) - Len(needle)) : SubSeq(hay, i + 1, i + Len(needle)) = needle

\* a search that lowers the title and the description but not the query
search_prompts_query_as_given(ps, query) ==
    SelectSeq(ps, LAMBDA p :
        \/ Contains(Lower(p.title), query)
        \/ /\ TruthyText(p.description)
           /\ Contains(Lower(p.description[1]), query))

search_prompts(ps, query) ==
    LET query_lower == Lower(query)
    IN  SelectSeq(ps, LAMBDA p :
            \/ Contains(Lower(p.title), query_lower)
            \/ /\ TruthyText(p.description)
               /\ Contains(Lower(p.description[1]), query_lower))

----------------------------------------------------------------------------
(* api.py: each handler maps the store and the request to the response and  *)
(* the store it leaves.  status 422 is FastAPI's answer to a body that      *)
(* fails the pydantic model, given before the handler's body runs.          *)

Response(status, result, P, C) ==
    [status |-> status, result |-> result, prompts |-> P, collections |-> C]

\* GET /prompts: result is PromptList(prompts, total)
list_prompts(P, C, collection_id, search) ==
    LET all      == Storage_get_all_prompts(P)
        filtered == IF TruthyId(collection_id)
                    THEN filter_prompts_by_collection(all, collection_id[1])
                    ELSE all
        searched == IF TruthyText(search)
                    THEN search_prompts(filtered, search[1])
                    ELSE filtered
        sorted   == sort_prompts_by_date(searched, TRUE)
    IN  Response(200, [prompts |-> sorted, total |-> Len(sorted)], P, C)

\* GET /prompts/{prompt_id}
get_prompt(P, C, prompt_id) ==
    LET prompt == Storage_get_prompt(P, prompt_id)
    IN  IF prompt = None THEN Response(404, None, P, C)
        ELSE Response(200, prompt, P, C)

\* POST /prompts with the two clock readings taken in the other order
create_prompt_stamps_swapped(P, C, body, id, t1, t2) ==
    IF ~PromptBase(body) THEN Response(422, None, P, C)
    ELSE IF TruthyId(body.collection_id)
            /\ Storage_get_collection(C, body.collection_id[1]) = None
    THEN Response(400, None, P, C)
    ELSE LET prompt == Prompt(id, body.title[1], body.content[1], body.description,
                              body.collection_id, t2, t1)
         IN  Response(201, Some(prompt), Storage_create_prompt(P, prompt), C)

\* POST /prompts; id is the fresh uuid, t1 and t2 the two clock readings of
\* the created_at and updated_at default factories
create_prompt(P, C, body, id, t1, t2) ==
    IF ~PromptBase(body) THEN Response(422, None, P, C)
    ELSE IF TruthyId(body.collection_id)
            /\ Storage_get_collection(C, body.collection_id[1]) = None
    THEN Response(400, None, P, C)
    ELSE LET prompt == Prompt(id, body.title[1], body.content[1], body.description,
                              body.collection_id, t1, t2)
         IN  Response(201, Some(prompt), Storage_create_prompt(P, prompt), C)

\* PUT with a body that keeps the stored link when it names none
update_prompt_keep_link(P, C, prompt_id, body, t) ==
    LET existing == Storage_get_prompt(P, prompt_id)
    IN  IF ~PromptBase(body) THEN Response(422, None, P, C)
        ELSE IF existing = None THEN Response(404, None, P, C)
        ELSE IF TruthyId(body.collection_id)
                /\ Storage_get_collection(C, body.collection_id[1]) = None
        THEN Response(400, None, P, C)
        ELSE LET updated_prompt ==
                     Prompt(existing[1].id, body.title[1], body.content[1],
                            body.description,
                            IF TruthyId(body.collection_id) THEN body.collection_id
                            ELSE existing[1].collection_id,
                            existing[1].created_at, t)
             IN  Response(200, Some(updated_prompt),
                          Storage_update_prompt(P, prompt_id, updated_prompt), C)

\* PUT that looks the target up before the body is validated
update_prompt_lookup_first(P, C, prompt_id, body, t) ==
    LET existing == Storage_get_prompt(P, prompt_id)
    IN  IF existing = None THEN Response(404, None, P, C)
        ELSE IF ~PromptBase(body) THEN Response(422, None, P, C)
        ELSE IF TruthyId(body.collection_id)
                /\ Storage_get_collection(C, body.collection_id[1]) = None
        THEN Response(400, None, P, C)
        ELSE LET updated_prompt ==
                     Prompt(existing[1].id, body.title[1], body.content[1],
                            body.description, body.collection_id,
                            existing[1].created_at, t)
             IN  Response(200, Some(updated_prompt),
                          Storage_update_prompt(P, prompt_id, updated_prompt), C)

\* PUT that stamps created_at anew instead of carrying it over
update_prompt_restamped(P, C, prompt_id, body, t) ==
    LET existing == Storage_get_prompt(P, prompt_id)
    IN  IF ~PromptBase(body) THEN Response(422, None, P, C)
        ELSE IF existing = None THEN Response(404, None, P, C)
        ELSE IF TruthyId(body.collection_id)
                /\ Storage_get_collection(C, body.collection_id[1]) = None
        THEN Response(400, None, P, C)
        ELSE LET updated_prompt ==
                     Prompt(existing[1].id, body.title[1], body.content[1],
                            body.description, body.collection_id, t, t)
             IN  Response(200, Some(updated_prompt),
                          Storage_update_prompt(P, prompt_id, updated_prompt), C)

\* PUT /prompts/{prompt_id}; t is the clock reading of get_current_time()
update_prompt(P, C, prompt_id, body, t) ==
    LET existing == Storage_get_prompt(P, prompt_id)
    IN  IF ~PromptBase(body) THEN Response(422, None, P, C)
        ELSE IF existing = None THEN Response(404, None, P, C)
        ELSE IF TruthyId(body.collection_id)
                /\ Storage_get_collection(C, body.collection_id[1]) = None
        THEN Response(400, None, P, C)
        ELSE LET updated_prompt ==
                     Prompt(existing[1].id, body.title[1], body.content[1],
                            body.description, body.collection_id,
                            existing[1].created_at, t)
             IN  Response(200, Some(updated_prompt),
                          Storage_update_prompt(P, prompt_id, updated_prompt), C)

\* PATCH that assigns the body's description even when it is null
patch_prompt_description_assigned(P, C, prompt_id, body, t) ==
    LET existing == Storage_get_prompt(P, prompt_id)
    IN  IF ~PromptBase(body) THEN Response(422, None, P, C)
        ELSE IF existing = None THEN Response(404, None, P, C)
        ELSE LET e0 == existing[1]
                 e3 == [e0 EXCEPT !.title = body.title[1], !.content = body.content[1],
                                  !.description = body.description]
                 P3 == DictSet(P, prompt_id, e3)
             IN  IF TruthyId(body.collection_id)
                    /\ Storage_get_collection(C, body.collection_id[1]) = None
                 THEN Response(400, None, P3, C)
                 ELSE LET e4 == IF TruthyId(body.collection_id)
                                THEN [e3 EXCEPT !.collection_id = body.collection_id]
                                ELSE e3
                          e5 == [e4 EXCEPT !.updated_at = t]
                      IN  Response(200, Some(e5),
                                   Storage_update_prompt(P3, prompt_id, e5), C)

\* PATCH /prompts/{prompt_id}.  existing is the stored object itself, so each
\* assignment to updated_prompt_data is an assignment to the stored prompt:
\* P3 is the store once the title, content and description lines have run
patch_prompt(P, C, prompt_id, body, t) ==
    LET existing == Storage_get_prompt(P, prompt_id)
    IN  IF ~PromptBase(body) THEN Response(422, None, P, C)
        ELSE IF existing = None THEN Response(404, None, P, C)
        ELSE LET e0 == existing[1]
                 e1 == IF body.title # None THEN [e0 EXCEPT !.title = body.title[1]] ELSE e0
                 e2 == IF body.content # None THEN [e1 EXCEPT !.content = body.content[1]] ELSE e1
                 e3 == IF body.description # None
                       THEN [e2 EXCEPT !.description = body.description] ELSE e2
                 P3 == DictSet(P, prompt_id, e3)
             IN  IF TruthyId(body.collection_id)
                    /\ Storage_get_collection(C, body.collection_id[1]) = None
                 THEN Response(400, None, P3, C)
                 ELSE LET e4 == IF TruthyId(body.collection_id)
                                THEN [e3 EXCEPT !.collection_id = body.collection_id]
                                ELSE e3
                          e5 == [e4 EXCEPT !.updated_at = t]
                      IN  Response(200, Some(e5),
                                   Storage_update_prompt(P3, prompt_id, e5), C)

\* DELETE with the test of the store's answer inverted
delete_prompt_inverted(P, C, prompt_id) ==
    LET r == Storage_delete_prompt(P, prompt_id)
    IN  IF r[2] THEN Response(404, None, r[1], C)
        ELSE Response(204, None, r[1], C)

\* DELETE /prompts/{prompt_id}
delete_prompt(P, C, prompt_id) ==
    LET r == Storage_delete_prompt(P, prompt_id)
    IN  IF ~r[2] THEN Response(404, None, r[1], C)
        ELSE Response(204, None, r[1], C)

\* GET /collections: result is CollectionList(collections, total)
list_collections(P, C) ==
    LET all == Storage_get_all_collections(C)
    IN  Response(200, [collections |-> all, total |-> Len(all)], P, C)

\* GET /collections/{collection_id}
get_collection(P, C, collection_id) ==
    LET collection == Storage_get_collection(C, collection_id)
    IN  IF collection = None THEN Response(404, None, P, C)
        ELSE Response(200, collection, P, C)

\* POST /collections; id is the fresh uuid, t the clock reading of created_at
create_collection(P, C, body, id, t) ==
    IF ~CollectionBase(body) THEN Response(422, None, P, C)
    ELSE LET collection == Collection(id, body.name[1], body.description, t)
         IN  Response(201, Some(collection), P, Storage_create_collection(C, collection))

\* DELETE /collections/{collection_id}
delete_collection(P, C, collection_id) ==
    LET r == Storage_delete_collection(C, collection_id)
    IN  IF ~r[2] THEN Response(404, None, P, r[1])
        ELSE Response(204, None,
                      Storage_update_prompts_collection_to_none(P, collection_id), r[1])

----------------------------------------------------------------------------
(* The requests a client sends *)

\* the ids a path can name: every id the run can hand out, stored or not
PromptIds == {generate_id("prompt", n) : n \in 0..(MaxPrompts - 1)}

CollectionIds == {generate_id("collection", n) : n \in 0..(MaxCollections - 1)}

\* collection_id of a body or of the query string: absent, empty, or an id
CollectionIdInputs == {None, Some("")} \cup {Some(c) : c \in CollectionIds}

\* title, content and description of a prompt body; the last one carries a
\* title and nothing else, which PromptBase rejects
PromptTexts ==
    { [title |-> Some(<<"A">>),      content |-> Some(<<"x">>), description |-> None],
      [title |-> Some(<<"a", "b">>), content |-> Some(<<"y">>), description |-> Some(<<"B">>)],
      [title |-> Some(<<"A">>),      content |-> None,          description |-> None] }

\* a text of n characters
LongText(n) == [i \in 1..n |-> "a"]

\* more texts that PromptBase rejects: the title missing, empty or over its
\* max_length, the content empty, the description over its max_length
InvalidPromptTexts ==
    { [title |-> None,                content |-> Some(<<"x">>), description |-> None],
      [title |-> Some(<< >>),         content |-> Some(<<"x">>), description |-> None],
      [title |-> Some(LongText(TitleMaxLength + 1)),
                                      content |-> Some(<<"x">>), description |-> None],
      [title |-> Some(<<"A">>),       content |-> Some(<< >>),   description |-> None],
      [title |-> Some(<<"A">>),       content |-> Some(<<"x">>),
       description |-> Some(LongText(DescriptionMaxLength + 1))] }

\* the bodies the requests of the state machine carry
PromptBodies ==
    { [title |-> x.title, content |-> x.content, description |-> x.description,
       collection_id |-> c] : x \in PromptTexts, c \in CollectionIdInputs }

\* bodies that validation turns away, with and without a collection_id; they
\* never reach a handler, so the requests of the state machine leave them out
RejectedPromptBodies ==
    { [title |-> x.title, content |-> x.content, description |-> x.description,
       collection_id |-> c] :
          x \in InvalidPromptTexts, c \in {None, Some(generate_id("collection", 0))} }

\* every body a handler is examined with
AnyPromptBodies == PromptBodies \cup RejectedPromptBodies

\* the first body is valid; the others have the name empty, missing or over
\* its max_length, or the description over its max_length
CollectionBodies ==
    { [name |-> Some(<<"N">>), description |-> None],
      [name |-> Some(<< >>),   description |-> None],
      [name |-> None,          description |-> None],
      [name |-> Some(LongText(NameMaxLength + 1)), description |-> None],
      [name |-> Some(<<"N">>), description |-> Some(LongText(DescriptionMaxLength + 1))] }

\* the search parameter of the query string
SearchInputs == {None, Some(<< >>), Some(<<"a">>), Some(<<"B">>)}

----------------------------------------------------------------------------
(* The state machine: one request at a time, each handler run to its end *)

\* the keys whose entry is not the same in dict d and in dict e
Touched(d, e) ==
    IF d = e THEN {}
    ELSE {k \in Keys(d) \cup Keys(e) : DictGet(d, k) # DictGet(e, k)}

Init ==
    /\ prompts = << >>
    /\ collections = << >>
    /\ now = 0
    /\ nextId = [prompt |-> 0, collection |-> 0]
    /\ last = [op |-> "none", status |-> 0, prompts |-> {}, collections |-> {}]
    /\ inflight = << >>

\* the wall clock advances between two requests
Tick ==
    /\ now < MaxTime
    /\ now' = now + 1
    /\ UNCHANGED <<prompts, collections, nextId, last, inflight>>

\* the store takes what the handler leaves, and the request is recorded
Answer(op, r) ==
    /\ prompts' = r.prompts
    /\ collections' = r.collections
    /\ last' = [op |-> op, status |-> r.status,
                prompts |-> Touched(prompts, r.prompts),
                collections |-> Touched(collections, r.collections)]
    /\ UNCHANGED inflight

ListPrompts ==
    \E c \in CollectionIdInputs, q \in SearchInputs :
        /\ Answer("list_prompts", list_prompts(prompts, collections, c, q))
        /\ UNCHANGED <<now, nextId>>

GetPrompt ==
    \E id \in PromptIds :
        /\ Answer("get_prompt", get_prompt(prompts, collections, id))
        /\ UNCHANGED <<now, nextId>>

\* Prompt(**prompt_data.model_dump()) draws one id and reads the clock twice,
\* for created_at and then for updated_at; a 4xx answer draws and reads nothing
CreatePrompt ==
    \E body \in PromptBodies, t2 \in {now, now + 1} :
        /\ nextId.prompt < MaxPrompts
        /\ t2 <= MaxTime
        /\ LET r == create_prompt(prompts, collections, body,
                                  generate_id("prompt", nextId.prompt), now, t2)
           IN  /\ Answer("create_prompt", r)
               /\ nextId' = IF r.status = 201
                            THEN [nextId EXCEPT !.prompt = @ + 1] ELSE nextId
               /\ now' = IF r.status = 201 THEN t2 ELSE now

UpdatePrompt ==
    \E id \in PromptIds, body \in PromptBodies :
        /\ Answer("update_prompt", update_prompt(prompts, collections, id, body, now))
        /\ UNCHANGED <<now, nextId>>

PatchPrompt ==
    \E id \in PromptIds, body \in PromptBodies :
        /\ Answer("patch_prompt", patch_prompt(prompts, collections, id, body, now))
        /\ UNCHANGED <<now, nextId>>

DeletePrompt ==
    \E id \in PromptIds :
        /\ Answer("delete_prompt", delete_prompt(prompts, collections, id))
        /\ UNCHANGED <<now, nextId>>

ListCollections ==
    /\ Answer("list_collections", list_collections(prompts, collections))
    /\ UNCHANGED <<now, nextId>>

GetCollection ==
    \E id \in CollectionIds :
        /\ Answer("get_collection", get_collection(prompts, collections, id))
        /\ UNCHANGED <<now, nextId>>

CreateCollection ==
    \E body \in CollectionBodies :
        /\ nextId.collection < MaxCollections
        /\ LET r == create_collection(prompts, collections, body,
                                      generate_id("collection", nextId.collection), now)
           IN  /\ Answer("create_collection", r)
               /\ nextId' = IF r.status = 201
                            THEN [nextId EXCEPT !.collection = @ + 1] ELSE nextId
        /\ UNCHANGED now

DeleteCollection ==
    \E id \in CollectionIds :
        /\ Answer("delete_collection", delete_collection(prompts, collections, id))
        /\ UNCHANGED <<now, nextId>>

Next ==
    \/ Tick
    \/ ListPrompts
    \/ GetPrompt
    \/ CreatePrompt
    \/ UpdatePrompt
    \/ PatchPrompt
    \/ DeletePrompt
    \/ ListCollections
    \/ GetCollection
    \/ CreateCollection
    \/ DeleteCollection

Spec == Init /\ [][Next]_vars

----------------------------------------------------------------------------
(* The same requests with no record kept of them: the state is the store,   *)
(* the clock and the id supply.                                              *)

\* the store takes what the handler leaves
Serve(r) ==
    /\ prompts' = r.prompts
    /\ collections' = r.collections
    /\ UNCHANGED <<last, inflight>>

Request ==
    \/ \E c \in CollectionIdInputs, q \in SearchInputs :
          /\ Serve(list_prompts(prompts, collections, c, q))
          /\ UNCHANGED <<now, nextId>>
    \/ \E id \in PromptIds :
          /\ Serve(get_prompt(prompts, collections, id))
          /\ UNCHANGED <<now, nextId>>
    \/ \E body \in PromptBodies, t2 \in {now, now + 1} :
          /\ nextId.prompt < MaxPrompts
          /\ t2 <= MaxTime
          /\ LET r == create_prompt(prompts, collections, body,
                                    generate_id("prompt", nextId.prompt), now, t2)
             IN  /\ Serve(r)
                 /\ nextId' = IF r.status = 201
                              THEN [nextId EXCEPT !.prompt = @ + 1] ELSE nextId
                 /\ now' = IF r.status = 201 THEN t2 ELSE now
    \/ \E id \in PromptIds, body \in PromptBodies :
          /\ Serve(update_prompt(prompts, collections, id, body, now))
          /\ UNCHANGED <<now, nextId>>
    \/ \E id \in PromptIds, body \in PromptBodies :
          /\ Serve(patch_prompt(prompts, collections, id, body, now))
          /\ UNCHANGED <<now, nextId>>
    \/ \E id \in PromptIds :
          /\ Serve(delete_prompt(prompts, collections, id))
          /\ UNCHANGED <<now, nextId>>
    \/ /\ Serve(list_collections(prompts, collections))
       /\ UNCHANGED <<now, nextId>>
    \/ \E id \in CollectionIds :
          /\ Serve(get_collection(prompts, collections, id))
          /\ UNCHANGED <<now, nextId>>
    \/ \E body \in CollectionBodies :
          /\ nextId.collection < MaxCollections
          /\ LET r == create_collection(prompts, collections, body,
                                        generate_id("collection", nextId.collection), now)
             IN  /\ Serve(r)
                 /\ nextId' = IF r.status = 201
                              THEN [nextId EXCEPT !.collection = @ + 1] ELSE nextId
          /\ UNCHANGED now
    \/ \E id \in CollectionIds :
          /\ Serve(delete_collection(prompts, collections, id))
          /\ UNCHANGED <<now, nextId>>

NextStore == Tick \/ Request

SpecStore == Init /\ [][NextStore]_vars

----------------------------------------------------------------------------
(* Two requests served at once.  The handlers are plain functions, which     *)
(* FastAPI runs on the threads of a pool, and the Storage instance has no    *)
(* lock.  A handler advances in steps: a step is one call of the Storage     *)
(* instance together with the handler's own statements up to its next call.  *)
(* inflight.w is a request that writes a prompt, inflight.d one that         *)
(* deletes; pc names the Storage call a request makes next; obj is the       *)
(* Prompt object the handler holds; status is 0 until the handler ends, then *)
(* the status of the HTTPException it raised, or the route's status when it  *)
(* returned, with result the value it returned.                              *)

\* request bodies that pass validation, with no collection_id or the first
\* collection's
RacingBodies ==
    { b \in PromptBodies :
        /\ PromptBase(b)
        /\ b.title = Some(<<"a", "b">>)
        /\ b.collection_id \in {None, Some(generate_id("collection", 0))} }

\* create, PUT and PATCH requests as they arrive; a create has the
\* collection_id set, so that its first Storage call is get_collection
Writers ==
    { [op |-> "create_prompt", id |-> "", body |-> b, pc |-> "get_collection",
       obj |-> None, status |-> 0, result |-> None] :
          b \in {x \in RacingBodies : TruthyId(x.collection_id)} }
    \cup
    { [op |-> o, id |-> generate_id("prompt", 0), body |-> b, pc |-> "get_prompt",
       obj |-> None, status |-> 0, result |-> None] :
          o \in {"update_prompt", "patch_prompt"}, b \in RacingBodies }

\* delete requests as they arrive
Deleters ==
    { [op |-> "delete_collection", id |-> generate_id("collection", 0),
       pc |-> "delete_collection", status |-> 0],
      [op |-> "delete_prompt", id |-> generate_id("prompt", 0),
       pc |-> "delete_prompt", status |-> 0] }

\* a store left by one create collection and one create prompt, the prompt in
\* the collection or in none, and two requests arriving together
InitConc ==
    /\ collections = <<Collection(generate_id("collection", 0), <<"N">>, None, 0)>>
    /\ \E c \in {None, Some(generate_id("collection", 0))} :
          prompts = <<Prompt(generate_id("prompt", 0), <<"A">>, <<"x">>, None, c, 0, 0)>>
    /\ now = 0
    /\ nextId = [prompt |-> 1, collection |-> 1]
    /\ last = [op |-> "none", status |-> 0, prompts |-> {}, collections |-> {}]
    /\ inflight \in [w : Writers, d : Deleters]

\* the handler ends: it raised HTTPException(status), or returned result
Ended(w, status, result) ==
    [w EXCEPT !.pc = "done", !.status = status, !.result = result]

\* the object a PATCH holds: storage.get_prompt handed out the stored object
\* itself, so it is the dict's entry for as long as the dict has the key
Held(w) ==
    IF w.op = "patch_prompt" /\ w.id \in Keys(prompts)
    THEN DictGet(prompts, w.id)[1]
    ELSE w.obj[1]

\* existing = storage.get_prompt(prompt_id), the 404, and the statements up
\* to the next Storage call: PATCH assigns title, content and description to
\* the object; without a collection_id to look up, PUT builds updated_prompt
\* and PATCH assigns updated_at
Writer_get_prompt ==
    LET w        == inflight.w
        existing == Storage_get_prompt(prompts, w.id)
        lookup   == TruthyId(w.body.collection_id)
        next     == IF lookup THEN "get_collection" ELSE "update_prompt"
    IN  /\ w.pc = "get_prompt"
        /\ IF existing = None
           THEN /\ inflight' = [inflight EXCEPT !.w = Ended(w, 404, None)]
                /\ UNCHANGED prompts
           ELSE IF w.op = "update_prompt"
           THEN /\ inflight' = [inflight EXCEPT !.w =
                      [w EXCEPT !.pc = next,
                                !.obj = IF lookup THEN existing
                                        ELSE Some(Prompt(existing[1].id, w.body.title[1],
                                                         w.body.content[1], w.body.description,
                                                         w.body.collection_id,
                                                         existing[1].created_at, now))]]
                /\ UNCHANGED prompts
           ELSE LET e1 == IF w.body.title # None
                          THEN [existing[1] EXCEPT !.title = w.body.title[1]]
                          ELSE existing[1]
                    e2 == IF w.body.content # None
                          THEN [e1 EXCEPT !.content = w.body.content[1]] ELSE e1
                    e3 == IF w.body.description # None
                          THEN [e2 EXCEPT !.description = w.body.description] ELSE e2
                    e4 == IF lookup THEN e3 ELSE [e3 EXCEPT !.updated_at = now]
                IN  /\ prompts' = DictSet(prompts, w.id, e4)
                    /\ inflight' = [inflight EXCEPT !.w =
                          [w EXCEPT !.pc = next, !.obj = Some(e4)]]
        /\ UNCHANGED <<collections, now, nextId, last>>

\* collection = storage.get_collection(collection_id), the 400, and the
\* statements up to the next Storage call: create builds the Prompt (a fresh
\* id, the clock), PUT builds updated_prompt, PATCH assigns collection_id and
\* updated_at to the object it holds
Writer_get_collection ==
    LET w  == inflight.w
        id == generate_id("prompt", nextId.prompt)
    IN  /\ w.pc = "get_collection"
        /\ IF Storage_get_collection(collections, w.body.collection_id[1]) = None
           THEN /\ inflight' = [inflight EXCEPT !.w = Ended(w, 400, None)]
                /\ UNCHANGED <<prompts, nextId>>
           ELSE IF w.op = "create_prompt"
           THEN /\ inflight' = [inflight EXCEPT !.w =
                      [w EXCEPT !.pc = "create_prompt",
                                !.obj = Some(Prompt(id, w.body.title[1], w.body.content[1],
                                                    w.body.description, w.body.collection_id,
                                                    now, now))]]
                /\ nextId' = [nextId EXCEPT !.prompt = @ + 1]
                /\ UNCHANGED prompts
           ELSE IF w.op = "update_prompt"
           THEN /\ inflight' = [inflight EXCEPT !.w =
                      [w EXCEPT !.pc = "update_prompt",
                                !.obj = Some(Prompt(w.obj[1].id, w.body.title[1],
                                                    w.body.content[1], w.body.description,
                                                    w.body.collection_id,
                                                    w.obj[1].created_at, now))]]
                /\ UNCHANGED <<prompts, nextId>>
           ELSE LET e5 == [Held(w) EXCEPT !.collection_id = w.body.collection_id,
                                          !.updated_at = now]
                IN  /\ prompts' = IF w.id \in Keys(prompts)
                                  THEN DictSet(prompts, w.id, e5) ELSE prompts
                    /\ inflight' = [inflight EXCEPT !.w =
                          [w EXCEPT !.pc = "update_prompt", !.obj = Some(e5)]]
                    /\ UNCHANGED nextId
        /\ UNCHANGED <<collections, now, last>>

\* return storage.create_prompt(prompt)
Writer_create_prompt ==
    LET w == inflight.w
    IN  /\ w.pc = "create_prompt"
        /\ prompts' = Storage_create_prompt(prompts, w.obj[1])
        /\ inflight' = [inflight EXCEPT !.w = Ended(w, 201, w.obj)]
        /\ UNCHANGED <<collections, now, nextId, last>>

\* return storage.update_prompt(prompt_id, ...): the handler returns what the
\* Storage call returns, the prompt, or None when the dict lacks the key
Writer_update_prompt ==
    LET w == inflight.w
    IN  /\ w.pc = "update_prompt"
        /\ prompts' = Storage_update_prompt(prompts, w.id, Held(w))
        /\ inflight' = [inflight EXCEPT !.w =
              Ended(w, 200, IF w.id \notin Keys(prompts) THEN None ELSE Some(Held(w)))]
        /\ UNCHANGED <<collections, now, nextId, last>>

\* storage.delete_collection(collection_id) and the 404
Deleter_delete_collection ==
    LET d == inflight.d
        r == Storage_delete_collection(collections, d.id)
    IN  /\ d.pc = "delete_collection"
        /\ collections' = r[1]
        /\ inflight' = [inflight EXCEPT !.d =
              IF r[2] THEN [d EXCEPT !.pc = "update_prompts_collection_to_none"]
              ELSE [d EXCEPT !.pc = "done", !.status = 404]]
        /\ UNCHANGED <<prompts, now, nextId, last>>

\* storage.update_prompts_collection_to_none(collection_id); return None
Deleter_update_prompts_collection_to_none ==
    LET d == inflight.d
    IN  /\ d.pc = "update_prompts_collection_to_none"
        /\ prompts' = Storage_update_prompts_collection_to_none(prompts, d.id)
        /\ inflight' = [inflight EXCEPT !.d = [d EXCEPT !.pc = "done", !.status = 204]]
        /\ UNCHANGED <<collections, now, nextId, last>>

\* storage.delete_prompt(prompt_id) and the 404; the object the dict let go
\* lives on with a PATCH that holds it
Deleter_delete_prompt ==
    LET d == inflight.d
        w == inflight.w
        r == Storage_delete_prompt(prompts, d.id)
    IN  /\ d.pc = "delete_prompt"
        /\ prompts' = r[1]
        /\ inflight' =
              [d |-> [d EXCEPT !.pc = "done", !.status = IF r[2] THEN 204 ELSE 404],
               w |-> IF /\ r[2]
                        /\ w.op = "patch_prompt"
                        /\ w.id = d.id
                        /\ w.pc \in {"get_collection", "update_prompt"}
                     THEN [w EXCEPT !.obj = Some(Held(w))]
                     ELSE w]
        /\ UNCHANGED <<collections, now, nextId, last>>

NextConc ==
    \/ Tick
    \/ Writer_get_prompt
    \/ Writer_get_collection
    \/ Writer_create_prompt
    \/ Writer_update_prompt
    \/ Deleter_delete_collection
    \/ Deleter_update_prompts_collection_to_none
    \/ Deleter_delete_prompt

SpecConc == InitConc /\ [][NextConc]_vars

----------------------------------------------------------------------------
(* Properties.  A property of a handler is stated of the handler applied to  *)
(* the store of every reachable state, for every request of the input sets.  *)

\* the entry dict d holds under key k, for a key of d
Entry(d, k) == DictGet(d, k)[1]

\* C1: every stored prompt whose collection_id is not null names a stored
\* collection, whatever non-null collection_id the bodies carried.
C1_ReferentialIntegrity ==
    \A i \in DOMAIN prompts :
        prompts[i].collection_id # None
            => prompts[i].collection_id[1] \in Keys(collections)

\* C2: a PATCH answered 400 (its collection_id resolves to no collection) has
\* changed no prompt and no collection.
C2_PatchInvalidReferenceNotApplied ==
    (last.op = "patch_prompt" /\ last.status = 400)
        => (last.prompts = {} /\ last.collections = {})

\* C3: creating a prompt whose valid body carries a non-null collection_id that
\* is the id of no stored collection is answered 400 and leaves both
\* containers as they were.
C3_CreateUnresolvedRejected ==
    \A body \in PromptBodies :
        ( /\ PromptBase(body)
          /\ body.collection_id # None
          /\ body.collection_id[1] \notin Keys(collections) )
        => LET r == create_prompt(prompts, collections, body,
                                  generate_id("prompt", nextId.prompt), now, now)
           IN  /\ r.status = 400
               /\ r.prompts = prompts
               /\ r.collections = collections

\* C4: after a successful DELETE of collection c, GET of c is answered 404,
\* every prompt that was linked to c has collection_id null, and the prompt
\* container holds the same ids as before.
C4_DeleteCollectionUnlinks ==
    \A c \in CollectionIds :
        LET r == delete_collection(prompts, collections, c)
        IN  r.status = 204 =>
              /\ get_collection(r.prompts, r.collections, c).status = 404
              /\ Len(r.prompts) = Len(prompts)
              /\ Keys(r.prompts) = Keys(prompts)
              /\ \A i \in DOMAIN prompts :
                    prompts[i].collection_id = Some(c)
                        => Entry(r.prompts, prompts[i].id).collection_id = None

\* C4 witness: a DELETE of a collection was answered 204 and unlinked two
\* prompts, which are both still stored with collection_id null.
C4_Witness ==
    /\ last.op = "delete_collection"
    /\ last.status = 204
    /\ Cardinality(last.collections) = 1
    /\ Cardinality(last.prompts) = 2
    /\ \A k \in last.prompts :
          k \in Keys(prompts) /\ Entry(prompts, k).collection_id = None

\* C5: a successful DELETE of collection c changes, in the prompt container,
\* only the collection_id of the prompts linked to c: every prompt keeps its
\* place, id, title, content, description, created_at and updated_at, a prompt
\* not linked to c keeps its collection_id too, and every other collection is
\* unchanged.
C5_DeleteCollectionFrame ==
    \A c \in CollectionIds :
        LET r == delete_collection(prompts, collections, c)
        IN  r.status = 204 =>
              /\ Len(r.prompts) = Len(prompts)
              /\ \A i \in DOMAIN prompts :
                    /\ r.prompts[i].id = prompts[i].id
                    /\ r.prompts[i].title = prompts[i].title
                    /\ r.prompts[i].content = prompts[i].content
                    /\ r.prompts[i].description = prompts[i].description
                    /\ r.prompts[i].created_at = prompts[i].created_at
                    /\ r.prompts[i].updated_at = prompts[i].updated_at
                    /\ (prompts[i].collection_id # Some(c)
                           => r.prompts[i] = prompts[i])
              /\ Keys(r.collections) = Keys(collections) \ {c}
              /\ \A k \in Keys(r.collections) :
                    Entry(r.collections, k) = Entry(collections, k)

\* C5 witness: a DELETE of a collection was answered 204 at a later instant
\* than the last update of a prompt it unlinked, another prompt is still
\* linked to another collection, and that collection is still stored.
C5_Witness ==
    /\ last.op = "delete_collection"
    /\ last.status = 204
    /\ \E k \in last.prompts :
          /\ Entry(prompts, k).collection_id = None
          /\ Entry(prompts, k).updated_at < now
    /\ \E i \in DOMAIN prompts :
          /\ prompts[i].id \notin last.prompts
          /\ prompts[i].collection_id # None
          /\ prompts[i].collection_id[1] \in Keys(collections)

\* C6: for a stored prompt linked to a stored collection c and a valid body
\* that names no collection_id, PUT is answered 200 and leaves collection_id
\* null, and PATCH is answered 200 and leaves collection_id = c.
C6_PutClearsPatchKeeps ==
    \A id \in Keys(prompts), body \in PromptBodies :
        LET existing == Entry(prompts, id)
            put      == update_prompt(prompts, collections, id, body, now)
            patch    == patch_prompt(prompts, collections, id, body, now)
        IN  ( /\ PromptBase(body)
              /\ body.collection_id = None
              /\ existing.collection_id # None
              /\ existing.collection_id[1] \in Keys(collections) )
            => /\ put.status = 200
               /\ Entry(put.prompts, id).collection_id = None
               /\ patch.status = 200
               /\ Entry(patch.prompts, id).collection_id = existing.collection_id

\* C6 witness: a PUT was answered 200 and changed a prompt that now has no
\* collection_id, while another prompt is linked to a stored collection, on
\* which a PUT and a PATCH without collection_id can be told apart.
C6_Witness ==
    /\ last.op = "update_prompt"
    /\ last.status = 200
    /\ \E k \in last.prompts : Entry(prompts, k).collection_id = None
    /\ \E i \in DOMAIN prompts :
          /\ prompts[i].collection_id # None
          /\ prompts[i].collection_id[1] \in Keys(collections)
          /\ update_prompt(prompts, collections, prompts[i].id,
                 [title |-> Some(<<"A">>), content |-> Some(<<"x">>),
                  description |-> None, collection_id |-> None], now).prompts
             # patch_prompt(prompts, collections, prompts[i].id,
                 [title |-> Some(<<"A">>), content |-> Some(<<"x">>),
                  description |-> None, collection_id |-> None], now).prompts

\* C7: a PATCH of a stored prompt whose body carries a title and nothing else
\* is answered 200; the stored title is the body's, content, description and
\* collection_id are as before, and updated_at is the time of the request.
C7_PatchTitleOnlyApplied ==
    \A id \in Keys(prompts), body \in PromptBodies :
        LET existing == Entry(prompts, id)
            r        == patch_prompt(prompts, collections, id, body, now)
        IN  ( /\ body.title # None
              /\ Len(body.title[1]) >= 1
              /\ body.content = None
              /\ body.description = None
              /\ body.collection_id = None )
            => /\ r.status = 200
               /\ Entry(r.prompts, id).title = body.title[1]
               /\ Entry(r.prompts, id).content = existing.content
               /\ Entry(r.prompts, id).description = existing.description
               /\ Entry(r.prompts, id).collection_id = existing.collection_id
               /\ Entry(r.prompts, id).updated_at = now

\* C8: for every collection_id and search filter, list prompts returns the
\* prompts newest first (a prompt created later than another comes before
\* it), and total is the length of the returned sequence.
C8_ListNewestFirst ==
    \A c \in CollectionIdInputs, q \in SearchInputs :
        LET r == list_prompts(prompts, collections, c, q).result
        IN  /\ r.total = Len(r.prompts)
            /\ \A i, j \in DOMAIN r.prompts :
                  r.prompts[i].created_at > r.prompts[j].created_at => i < j

\* C8 witness: list prompts was answered while the store held two prompts
\* created at different instants, the older one first in the container.
C8_Witness ==
    /\ last.op = "list_prompts"
    /\ last.status = 200
    /\ Len(prompts) = 2
    /\ prompts[1].created_at < prompts[2].created_at
    /\ list_prompts(prompts, collections, None, None).result.prompts
           = <<prompts[2], prompts[1]>>

\* the prompts of sequence ps, each with the number of times it occurs
Occurrences(ps) ==
    [x \in {ps[i] : i \in DOMAIN ps} |-> Cardinality({i \in DOMAIN ps : ps[i] = x})]

\* C9: for every string given as the collection_id filter, list prompts
\* returns exactly the stored prompts whose collection_id is that string.
C9_FilterExact ==
    \A c \in CollectionIdInputs \ {None} :
        LET r == list_prompts(prompts, collections, c, None).result
        IN  Occurrences(r.prompts)
              = Occurrences(SelectSeq(prompts, LAMBDA p : p.collection_id = c))

\* C10: DELETE of a prompt id or of a collection id that is not stored is
\* answered 404 and leaves both containers as they were (no prompt is
\* unlinked).
C10_DeleteMissingNotFound ==
    /\ \A id \in PromptIds \ Keys(prompts) :
          LET r == delete_prompt(prompts, collections, id)
          IN  r.status = 404 /\ r.prompts = prompts /\ r.collections = collections
    /\ \A c \in CollectionIds \ Keys(collections) :
          LET r == delete_collection(prompts, collections, c)
          IN  r.status = 404 /\ r.prompts = prompts /\ r.collections = collections

\* C10 witness: a DELETE of a collection was answered 404 while the store
\* held a prompt linked to a stored collection and an id that was deleted.
C10_Witness ==
    /\ last.op = "delete_collection"
    /\ last.status = 404
    /\ last.prompts = {} /\ last.collections = {}
    /\ nextId.collection > Len(collections)
    /\ \E i \in DOMAIN prompts :
          /\ prompts[i].collection_id # None
          /\ prompts[i].collection_id[1] \in Keys(collections)


\* C11: for every create prompt answered 201, a get prompt of the returned id
\* issued next on the store the create left is answered 200 with a prompt
\* equal in every field to the one create returned.
C11_CreateGetRoundTrip ==
    \A body \in PromptBodies, t2 \in {now, now + 1} :
        LET created == create_prompt(prompts, collections, body,
                                     generate_id("prompt", nextId.prompt), now, t2)
            got     == get_prompt(created.prompts, created.collections,
                                  generate_id("prompt", nextId.prompt))
        IN  created.status = 201 =>
              /\ created.result # None
              /\ created.result[1].id = generate_id("prompt", nextId.prompt)
              /\ got.status = 200
              /\ got.result = created.result
              /\ \A f \in {"id", "title", "content", "description",
                           "collection_id", "created_at", "updated_at"} :
                    got.result[1][f] = created.result[1][f]

\* C11 witness: a create prompt was answered 201 with two different clock
\* readings, and a get prompt of the new id on this store returns the stored
\* prompt.
C11_Witness ==
    /\ last.op = "create_prompt"
    /\ last.status = 201
    /\ \E k \in last.prompts :
          /\ get_prompt(prompts, collections, k).status = 200
          /\ get_prompt(prompts, collections, k).result[1].id = k
          /\ get_prompt(prompts, collections, k).result[1].created_at
                < get_prompt(prompts, collections, k).result[1].updated_at


\* Ok(op, r, t) for the answer r once it is computed
Given(Ok(_, _, _), op, answer, t) == \A r \in {answer} : Ok(op, r, t)

\* Ok holds of the answer to every request that can be served in the current
\* state: Ok(op, r, t) is given the handler, its answer r (with the containers
\* it leaves) and the clock reading t at the end of the request
EveryAnswer(Ok(_, _, _)) ==
    /\ \A c \in CollectionIdInputs, q \in SearchInputs :
          Given(Ok, "list_prompts", list_prompts(prompts, collections, c, q), now)
    /\ \A id \in PromptIds :
          /\ Given(Ok, "get_prompt", get_prompt(prompts, collections, id), now)
          /\ Given(Ok, "delete_prompt", delete_prompt(prompts, collections, id), now)
          /\ \A body \in AnyPromptBodies :
                /\ Given(Ok, "update_prompt",
                      update_prompt(prompts, collections, id, body, now), now)
                /\ Given(Ok, "patch_prompt",
                      patch_prompt(prompts, collections, id, body, now), now)
    /\ \A body \in AnyPromptBodies, t2 \in {now, now + 1} :
          Given(Ok, "create_prompt",
             create_prompt(prompts, collections, body,
                           generate_id("prompt", nextId.prompt), now, t2), t2)
    /\ Given(Ok, "list_collections", list_collections(prompts, collections), now)
    /\ \A id \in CollectionIds :
          /\ Given(Ok, "get_collection", get_collection(prompts, collections, id), now)
          /\ Given(Ok, "delete_collection", delete_collection(prompts, collections, id), now)
    /\ \A body \in CollectionBodies :
          Given(Ok, "create_collection",
             create_collection(prompts, collections, body,
                               generate_id("collection", nextId.collection), now), now)

\* the request leaves each prompt that stays stored its created_at, and a PUT,
\* a PATCH or a collection delete leaves every prompt at its place under its id
IdCreatedAtKept(op, r, t) ==
    /\ \A i \in DOMAIN prompts, j \in DOMAIN r.prompts :
          r.prompts[j].id = prompts[i].id
             => r.prompts[j].created_at = prompts[i].created_at
    /\ (op \in {"update_prompt", "patch_prompt", "delete_collection"}
           => /\ Len(r.prompts) = Len(prompts)
              /\ \A i \in DOMAIN prompts : r.prompts[i].id = prompts[i].id)

\* C12: id and created_at of a prompt never change while it is stored: in
\* every reachable state, every request leaves each prompt that stays stored
\* its created_at, and a PUT, a PATCH or a collection delete leaves every
\* prompt stored at its place under its id.
C12_IdCreatedAtImmutable == EveryAnswer(IdCreatedAtKept)

\* C12 witness: a stored prompt that was created earlier and updated since,
\* and to which a PUT now answers 200 with the same id and created_at and a
\* later updated_at.
C12_Witness ==
    \E i \in DOMAIN prompts : \E body \in PromptBodies :
        LET r == update_prompt(prompts, collections, prompts[i].id, body, now)
        IN  /\ prompts[i].created_at < prompts[i].updated_at
            /\ r.status = 200
            /\ r.prompts # prompts
            /\ r.result[1].id = prompts[i].id
            /\ r.result[1].created_at < r.result[1].updated_at


\* two characters that are the same letter, whatever their case
SameLetter(x, y) == x = y \/ {x, y} = {"a", "A"} \/ {x, y} = {"b", "B"}

\* needle occurs in hay as a substring, case ignored
ContainsIgnoreCase(hay, needle) ==
    \E i \in 0..(Len(hay) - Len(needle)) :
        \A j \in 1..Len(needle) : SameLetter(hay[i + j], needle[j])

\* C13: with a non-empty search query, list prompts returns exactly the stored
\* prompts whose title or (non-null) description contains the query as a
\* substring, case ignored; with an empty or absent query it returns every
\* stored prompt.
C13_SearchExact ==
    \A q \in SearchInputs :
        LET r == list_prompts(prompts, collections, None, q).result.prompts
        IN  IF q = None \/ q[1] = << >>
            THEN Occurrences(r) = Occurrences(prompts)
            ELSE Occurrences(r) = Occurrences(SelectSeq(prompts, LAMBDA p :
                     \/ ContainsIgnoreCase(p.title, q[1])
                     \/ /\ p.description # None
                        /\ ContainsIgnoreCase(p.description[1], q[1])))

\* C13 witness: list prompts was answered on a store of two prompts of which
\* the query "B" returns one, matched by its description "B" and not by its
\* title "A", and the query "a" returns both, one by its title "A".
C13_Witness ==
    /\ last.op = "list_prompts"
    /\ last.status = 200
    /\ Len(prompts) = 2
    /\ LET r == list_prompts(prompts, collections, None, Some(<<"B">>)).result
       IN  /\ r.total = 1
           /\ r.prompts[1].title = <<"A">>
           /\ r.prompts[1].description = Some(<<"B">>)
    /\ list_prompts(prompts, collections, None, Some(<<"a">>)).result.total = 2


\* a prompt body breaks a field constraint: title missing, empty or over 200
\* characters, content missing or empty, description over 500 characters
PromptBodyViolates(body) ==
    \/ body.title = None
    \/ (body.title # None /\ (Len(body.title[1]) = 0 \/ Len(body.title[1]) > TitleMaxLength))
    \/ body.content = None
    \/ (body.content # None /\ Len(body.content[1]) = 0)
    \/ (body.description # None /\ Len(body.description[1]) > DescriptionMaxLength)

\* a PATCH body breaks a field constraint: a field it carries is out of
\* bounds (a partial body may leave any field out)
PatchBodyViolates(body) ==
    \/ (body.title # None /\ (Len(body.title[1]) = 0 \/ Len(body.title[1]) > TitleMaxLength))
    \/ (body.content # None /\ Len(body.content[1]) = 0)
    \/ (body.description # None /\ Len(body.description[1]) > DescriptionMaxLength)

\* a collection body breaks a field constraint: name missing, empty or over
\* 100 characters, description over 500 characters
CollectionBodyViolates(body) ==
    \/ body.name = None
    \/ (body.name # None /\ (Len(body.name[1]) = 0 \/ Len(body.name[1]) > NameMaxLength))
    \/ (body.description # None /\ Len(body.description[1]) > DescriptionMaxLength)

\* C14: a create prompt, PUT, PATCH or create collection whose body breaks a
\* field constraint is answered 422 and leaves both containers as they were,
\* whether or not the targeted prompt is stored and whether or not the body's
\* collection_id resolves.
C14_ValidationFirst ==
    /\ \A body \in AnyPromptBodies :
          PromptBodyViolates(body) =>
            /\ LET r == create_prompt(prompts, collections, body,
                                      generate_id("prompt", nextId.prompt), now, now)
               IN  r.status = 422 /\ r.prompts = prompts /\ r.collections = collections
            /\ \A id \in PromptIds :
                  LET r == update_prompt(prompts, collections, id, body, now)
                  IN  r.status = 422 /\ r.prompts = prompts /\ r.collections = collections
    /\ \A body \in AnyPromptBodies :
          PatchBodyViolates(body) =>
            \A id \in PromptIds :
                LET r == patch_prompt(prompts, collections, id, body, now)
                IN  r.status = 422 /\ r.prompts = prompts /\ r.collections = collections
    /\ \A body \in CollectionBodies :
          CollectionBodyViolates(body) =>
            LET r == create_collection(prompts, collections, body,
                                       generate_id("collection", nextId.collection), now)
            IN  r.status = 422 /\ r.prompts = prompts /\ r.collections = collections

\* C14 witness: a PUT was answered 422 on a store that holds a prompt, lacks
\* another prompt id and lacks the collection the invalid bodies name, so that
\* an invalid body meets a stored target, a missing target and an unresolved
\* collection_id.
C14_Witness ==
    /\ last.op = "update_prompt"
    /\ last.status = 422
    /\ last.prompts = {} /\ last.collections = {}
    /\ prompts # << >>
    /\ PromptIds \ Keys(prompts) # {}
    /\ generate_id("collection", 0) \notin Keys(collections)
    /\ \E body \in AnyPromptBodies :
          /\ PromptBodyViolates(body)
          /\ body.collection_id = Some(generate_id("collection", 0))


\* C15: merge rule of a successful PATCH of a stored prompt. Each of title,
\* content and description ends as the body's value when that is non-null and
\* as the stored value otherwise; collection_id ends as the body's value when
\* that is non-null and resolves, and as the stored value when the body has
\* none; updated_at is the current time; id and created_at are kept; the
\* answer is the stored prompt; no other prompt and no collection changes.
C15_PatchMerge ==
    \A id \in Keys(prompts) : \A body \in PromptBodies :
        LET r   == patch_prompt(prompts, collections, id, body, now)
            old == Entry(prompts, id)
        IN  r.status = 200 =>
              /\ Keys(r.prompts) = Keys(prompts)
              /\ LET new == Entry(r.prompts, id)
                 IN  /\ new.title = (IF body.title # None THEN body.title[1] ELSE old.title)
                     /\ new.content = (IF body.content # None THEN body.content[1] ELSE old.content)
                     /\ new.description = (IF body.description # None THEN body.description
                                           ELSE old.description)
                     /\ (body.collection_id # None
                           /\ body.collection_id[1] \in Keys(collections)
                             => new.collection_id = body.collection_id)
                     /\ (body.collection_id = None => new.collection_id = old.collection_id)
                     /\ new.updated_at = now
                     /\ new.id = old.id /\ new.created_at = old.created_at
                     /\ r.result = Some(new)
              /\ \A k \in Keys(prompts) \ {id} : Entry(r.prompts, k) = Entry(prompts, k)
              /\ r.collections = collections

\* C15 witness: a PATCH succeeded on a linked prompt and left it with the
\* title of a body that carries no description, the description and the link
\* it had before, and a later updated_at than created_at.
C15_Witness ==
    /\ last.op = "patch_prompt"
    /\ last.status = 200
    /\ \E k \in last.prompts :
          /\ k \in Keys(prompts)
          /\ Entry(prompts, k).title = <<"A">>
          /\ Entry(prompts, k).description = Some(<<"B">>)
          /\ Entry(prompts, k).collection_id # None
          /\ Entry(prompts, k).collection_id[1] \in Keys(collections)
          /\ Entry(prompts, k).updated_at = now
          /\ Entry(prompts, k).created_at < now


\* C16: a GET, PUT, PATCH or DELETE of a prompt id that is not stored, and a
\* GET or DELETE of a collection id that is not stored, is answered 404 and
\* leaves both containers as they were, for every body that meets the field
\* constraints of its operation, also when the body's collection_id does not
\* resolve.
C16_NotFoundOnMissingTarget ==
    /\ \A id \in PromptIds \ Keys(prompts) :
          /\ LET r == get_prompt(prompts, collections, id)
             IN  r.status = 404 /\ r.prompts = prompts /\ r.collections = collections
          /\ LET r == delete_prompt(prompts, collections, id)
             IN  r.status = 404 /\ r.prompts = prompts /\ r.collections = collections
          /\ \A body \in AnyPromptBodies :
                /\ ~PromptBodyViolates(body) =>
                      LET r == update_prompt(prompts, collections, id, body, now)
                      IN  r.status = 404 /\ r.prompts = prompts /\ r.collections = collections
                /\ ~PatchBodyViolates(body) =>
                      LET r == patch_prompt(prompts, collections, id, body, now)
                      IN  r.status = 404 /\ r.prompts = prompts /\ r.collections = collections
    /\ \A id \in CollectionIds \ Keys(collections) :
          /\ LET r == get_collection(prompts, collections, id)
             IN  r.status = 404 /\ r.prompts = prompts /\ r.collections = collections
          /\ LET r == delete_collection(prompts, collections, id)
             IN  r.status = 404 /\ r.prompts = prompts /\ r.collections = collections


\* the request leaves each stored prompt with updated_at >= created_at, stamps
\* a new prompt and each prompt a successful PUT or PATCH changed with the
\* clock reading t, and leaves every other updated_at as it was
StampsOrdered(op, r, t) ==
    \A j \in DOMAIN r.prompts :
        /\ r.prompts[j].updated_at >= r.prompts[j].created_at
        /\ IF \E i \in DOMAIN prompts : prompts[i].id = r.prompts[j].id
           THEN \A i \in DOMAIN prompts :
                   prompts[i].id = r.prompts[j].id
                      => /\ r.prompts[j].updated_at >= prompts[i].updated_at
                         /\ IF /\ op \in {"update_prompt", "patch_prompt"}
                               /\ r.status = 200
                               /\ r.result = Some(r.prompts[j])
                            THEN r.prompts[j].updated_at = t
                            ELSE r.prompts[j].updated_at = prompts[i].updated_at
           ELSE r.prompts[j].updated_at = t

\* C20: with a clock that never runs backwards, each stored prompt has
\* updated_at >= created_at in every reachable state, and every request keeps
\* it so: a prompt that stays stored never has its updated_at lowered;
\* updated_at is the current time on creation and on the prompt a successful
\* PUT or PATCH answers with, and is left as it was by every other operation.
C20_TimestampOrder ==
    /\ \A i \in DOMAIN prompts :
          /\ prompts[i].created_at <= prompts[i].updated_at
          /\ prompts[i].updated_at <= now
    /\ EveryAnswer(StampsOrdered)

\* C20 witness: two stored prompts, one untouched since an earlier instant,
\* the other stamped later than it was created, which a PATCH now answered
\* 200 would stamp no earlier.
C20_Witness ==
    \E i, j \in DOMAIN prompts : \E body \in PromptBodies :
        LET r == patch_prompt(prompts, collections, prompts[j].id, body, now)
        IN  /\ prompts[i].updated_at < prompts[j].updated_at
            /\ prompts[j].created_at < prompts[j].updated_at
            /\ r.status = 200
            /\ r.result[1].updated_at >= prompts[j].updated_at


\* C17: when a create prompt, PUT or PATCH with collection_id = c has run
\* together with delete collection c, step by step at the Storage calls, and
\* both have ended, no stored prompt has collection_id = c while c is absent
\* from the collection container.
C17_NoDanglingAfterRace ==
    LET w == inflight.w
        d == inflight.d
    IN  ( /\ d.op = "delete_collection"
          /\ w.body.collection_id = Some(d.id)
          /\ w.pc = "done"
          /\ d.pc = "done" )
        => \A i \in DOMAIN prompts :
              prompts[i].collection_id = Some(d.id) => d.id \in Keys(collections)

\* C18: when a PUT or PATCH of prompt p runs together with a DELETE of p, step
\* by step at the Storage calls, then from the successful DELETE on p is
\* absent from the prompt container, whatever steps of the update follow.
C18_NoResurrection ==
    LET w == inflight.w
        d == inflight.d
    IN  ( /\ d.op = "delete_prompt"
          /\ d.status = 204
          /\ w.op \in {"update_prompt", "patch_prompt"}
          /\ w.id = d.id )
        => d.id \notin Keys(prompts)

\* C18 witness: the DELETE succeeded between the existence check and the
\* Storage update of a PATCH, which then found the key gone; the prompt is
\* absent.
C18_Witness ==
    LET w == inflight.w
        d == inflight.d
    IN  /\ d.op = "delete_prompt"
        /\ d.status = 204
        /\ w.op = "patch_prompt"
        /\ w.id = d.id
        /\ w.pc = "done"
        /\ w.status = 200
        /\ w.result = None
        /\ w.obj # None
        /\ d.id \notin Keys(prompts)

\* C19: a PUT or PATCH that has ended, also one that ran together with a
\* DELETE of its prompt, returned the updated prompt, or signalled not-found
\* (404), or signalled invalid-reference (400).
C19_ThreeOutcomes ==
    LET w == inflight.w
    IN  (w.op \in {"update_prompt", "patch_prompt"} /\ w.pc = "done")
        => \/ w.status = 404
           \/ w.status = 400
           \/ (w.status = 200 /\ w.result # None /\ w.result[1].id = w.id)

====
